---- MODULE Spec2Model ----
(***************************************************************************)
(* DJ Beatmatch Encoder (beatmatch_encoder.py).                            *)
(*                                                                         *)
(* File names and adjustment strings are sequences of one-character        *)
(* strings.  A BPM value is an integer count of 1/BpmDen beats per minute  *)
(* (BpmDen is a power of two, so every such value is an exact float).      *)
(***************************************************************************)
EXTENDS Integers, Sequences, FiniteSets, TLC

\* ------------------------------------------------------------------ bounds
BpmDen == 128         \* resolution of a BPM value: 1/BpmDen
MaxTrackBpm == 160    \* SpecPitch: track BPMs 1..MaxTrackBpm
MaxBaseBpm == 160     \* SpecPitch: base BPMs up to MaxBaseBpm
MaxNameLen == 4       \* SpecName: names of up to MaxNameLen characters
MaxEntries == 2       \* Spec: entries in the directory at the start
MaxRecords == 2       \* SpecRename: records handed to rename_tracks

\* ------------------------------------------------------- program constants
MinBpmDigits == 2     \* BPM_PATTERN: \d{2,3}
MaxBpmDigits == 3
Places == 2           \* round(percentage, 2)

\* ------------------------------------------------------------- characters
DigitChars == <<"0", "1", "2", "3", "4", "5", "6", "7", "8", "9">>

IsDigit(c) == \E i \in 1..Len(DigitChars) : DigitChars[i] = c

DigitVal(c) == (CHOOSE i \in 1..Len(DigitChars) : DigitChars[i] = c) - 1

\* \s of the re module, as far as the names of the model go: space and tab
IsSpace(c) == c \in {" ", "\t"}

Abs(x) == IF x < 0 THEN -x ELSE x

Pow10(n) == IF n = 0 THEN 1 ELSE IF n = 1 THEN 10 ELSE 100

\* ------------------------------------------------- float(str) and str(float)
RECURSIVE FloatOfDigits(_)
\* float(match.group(1)) of a run of decimal digits, in units of 1/BpmDen
FloatOfDigits(ds) ==
    IF ds = <<>> THEN 0
    ELSE FloatOfDigits(SubSeq(ds, 1, Len(ds) - 1)) * 10 + DigitVal(ds[Len(ds)]) * BpmDen

RECURSIVE IntStr(_)
IntStr(n) ==
    IF n < 10 THEN <<DigitChars[n + 1]>>
    ELSE IntStr(n \div 10) \o <<DigitChars[(n % 10) + 1]>>

\* str(x) of a float x that round(_, 2) returned: x is neg/h hundredths (neg
\* with h = 0 is -0.0); repr prints the shortest digits that read back as x, so
\* at least one fraction digit and no trailing zero after it.
FloatStr(neg, h) ==
    LET unit == Pow10(Places)
        frac == h % unit
    IN  (IF neg THEN <<"-">> ELSE <<>>)
        \o IntStr(h \div unit) \o <<".">>
        \o (IF frac % 10 = 0 THEN <<DigitChars[(frac \div 10) + 1]>>
            ELSE <<DigitChars[(frac \div 10) + 1], DigitChars[(frac % 10) + 1]>>)

\* round(num/den, 2) of the float nearest to num/den (den > 0), as the set of
\* magnitudes in hundredths the float arithmetic can produce: the nearest
\* hundredth, and at an exact decimal tie either neighbour, since the float that
\* the division and the multiplication produce may lie on either side of the tie.
RoundHundredths(num, den) ==
    LET a == Abs(num) * Pow10(Places)
        q == a \div den
        r == a % den
    IN  IF 2 * r < den THEN {q}
        ELSE IF 2 * r > den THEN {q + 1}
        ELSE {q, q + 1}

\* ------------------------------------------------ calculate_pitch_adjustment
ZeroDivisionError == <<"ZeroDivisionError">>

calculate_pitch_adjustment_swapped(track_bpm, base_bpm) ==
    IF base_bpm = track_bpm THEN {<<"0">>}
    ELSE IF base_bpm = 0 THEN {ZeroDivisionError}
    ELSE LET num == (track_bpm - base_bpm) * 100
         IN  IF num > 0
             THEN {<<"+">> \o FloatStr(FALSE, h) : h \in RoundHundredths(num, base_bpm)}
             ELSE {FloatStr(TRUE, h) : h \in RoundHundredths(num, base_bpm)}

calculate_pitch_adjustment_signlate(track_bpm, base_bpm) ==
    IF base_bpm = track_bpm THEN {<<"0">>}
    ELSE IF track_bpm = 0 THEN {ZeroDivisionError}
    ELSE LET num == (base_bpm - track_bpm) * 100
         IN  {IF num > 0 /\ h > 0 THEN <<"+">> \o FloatStr(FALSE, h)
              ELSE FloatStr(num < 0 /\ h > 0, h) : h \in RoundHundredths(num, track_bpm)}

\* The set of values the call can return; {ZeroDivisionError} when it raises.
\* percentage = ((base_bpm - track_bpm) / track_bpm) * 100 is num / track_bpm.
calculate_pitch_adjustment(track_bpm, base_bpm) ==
    IF base_bpm = track_bpm THEN {<<"0">>}
    ELSE IF track_bpm = 0 THEN {ZeroDivisionError}
    ELSE LET num == (base_bpm - track_bpm) * 100
         IN  IF num > 0
             THEN {<<"+">> \o FloatStr(FALSE, h) : h \in RoundHundredths(num, track_bpm)}
             ELSE {FloatStr(TRUE, h) : h \in RoundHundredths(num, track_bpm)}

\* ------------------------------------------------------------- BPM_PATTERN
\* \s-\s(\d{2,3})\. matched at position i of name: the length of the captured
\* digit run, 0 when the pattern does not match there.  \d{2,3} is greedy: three
\* digits are tried first, then two.
BpmMatchAt(name, i) ==
    LET at(k) == IF k <= Len(name) THEN name[k] ELSE ""
        digits(n) == \A k \in 1..n : IsDigit(at(i + 2 + k))
    IN  IF ~(IsSpace(at(i)) /\ at(i + 1) = "-" /\ IsSpace(at(i + 2))) THEN 0
        ELSE IF digits(MaxBpmDigits) /\ at(i + 3 + MaxBpmDigits) = "." THEN MaxBpmDigits
        ELSE IF digits(MinBpmDigits) /\ at(i + 3 + MinBpmDigits) = "." THEN MinBpmDigits
        ELSE 0

\* BPM_PATTERN.search(name): the leftmost match.  <<>> is None; otherwise
\* <<group(1)>>, the captured digit run.
BPM_PATTERN_search(name) ==
    LET hits == {i \in 1..Len(name) : BpmMatchAt(name, i) > 0}
    IN  IF hits = {} THEN <<>>
        ELSE LET i == CHOOSE j \in hits : \A k \in hits : j <= k
             IN  <<SubSeq(name, i + 3, i + 2 + BpmMatchAt(name, i))>>

\* ---------------------------------------------------- TRACK_NUMBER_PATTERN
\* ^(\d+\.?\s) matched at the start of name: the length of group(1), 0 when
\* there is no match.  \d+ takes the whole leading digit run (a shorter run is
\* followed by a digit, which neither \.? nor \s accepts).
TRACK_NUMBER_PATTERN_match(name) ==
    LET at(k) == IF k <= Len(name) THEN name[k] ELSE ""
        run == {n \in 0..Len(name) : \A k \in 1..n : IsDigit(name[k])}
        d == CHOOSE n \in run : \A m \in run : m <= n
    IN  IF d = 0 THEN 0
        ELSE IF at(d + 1) = "." /\ IsSpace(at(d + 2)) THEN d + 2
        ELSE IF IsSpace(at(d + 1)) THEN d + 1
        ELSE 0

\* ------------------------------------------------------ generate_new_filename
generate_new_filename_prepend(original_name, pitch_adjustment) ==
    <<"(">> \o pitch_adjustment \o <<")", " ">> \o original_name

generate_new_filename(original_name, pitch_adjustment) ==
    LET n == TRACK_NUMBER_PATTERN_match(original_name)
    IN  IF n > 0
        THEN LET prefix == SubSeq(original_name, 1, n)
                 rest == SubSeq(original_name, n + 1, Len(original_name))
             IN  prefix \o <<"(">> \o pitch_adjustment \o <<")", " ">> \o rest
        ELSE <<"(">> \o pitch_adjustment \o <<")", " ">> \o original_name

\* ----------------------------------------------------------------- state
VARIABLES
    pc,             \* where the program is: "main", "scan", "scanned", "rename",
                    \* "renamed", "exit", "raised"; "call"/"return" for one pure call
    os_name,        \* "posix" or "nt": what os.rename does with an existing target
    dir_kind,       \* what parsed_args.directory names: "missing", "file", "dir"
    fs,             \* the directory: its entries' names |-> "file" or "dir"
    bpm,            \* parsed_args.bpm / base_bpm
    dry_run,        \* parsed_args.dry_run
    seen,           \* scan_directory: the entries iterdir() has yielded
    tracks,         \* scan_directory's list / rename_tracks' argument
    done,           \* rename_tracks: records the loop has been through
    renamed_count,  \* rename_tracks: renamed_count
    exit_code,      \* main's return value, -1 before it returns
    run,            \* which call of scan_directory this is: 1 in main, 2 after it
    fs0,            \* history: fs when the current call started
    passed,         \* history: track_bpm of every calculate_pitch_adjustment call
    outcomes,       \* history: per record that rename_tracks went through, whether
                    \* it was counted
    prev,           \* history: main's tracks and outcomes, for the second scan
    fp,             \* history: the float results so far, operands |-> result (the
                    \* same operands always give the same float)
    args,           \* one pure call: its arguments
    ret             \* one pure call: its return value

vars == <<pc, os_name, dir_kind, fs, bpm, dry_run, seen, tracks, done, renamed_count,
          exit_code, run, fs0, passed, outcomes, prev, fp, args, ret>>

NoFs == [n \in {} |-> "file"]

Range(f) == {f[x] : x \in DOMAIN f}

TrackInfo(path, name, b, adj, new) ==
    [original_path |-> path, original_name |-> name, bpm |-> b,
     pitch_adjustment |-> adj, new_name |-> new]

\* ------------------------------------------------------------- os.rename
\* Path.rename(target) inside one directory: [ok, fs].  io_error is an OSError of
\* the environment (permission denied, name too long, target directory not
\* empty).  An existing target is replaced on POSIX when both are files and is
\* an error on Windows; a directory never replaces a file nor a file a directory.
os_rename_noclobber(dir, src, dst, os, io_error) ==
    IF io_error \/ src \notin DOMAIN dir THEN [ok |-> FALSE, fs |-> dir]
    ELSE IF src = dst THEN [ok |-> TRUE, fs |-> dir]
    ELSE IF dst \in DOMAIN dir THEN [ok |-> FALSE, fs |-> dir]
    ELSE [ok |-> TRUE,
          fs |-> [n \in (DOMAIN dir \ {src}) \cup {dst} |->
                     IF n = dst THEN dir[src] ELSE dir[n]]]

os_rename(dir, src, dst, os, io_error) ==
    IF io_error \/ src \notin DOMAIN dir THEN [ok |-> FALSE, fs |-> dir]
    ELSE IF src = dst THEN [ok |-> TRUE, fs |-> dir]
    ELSE IF dst \in DOMAIN dir /\ (os = "nt" \/ dir[src] # dir[dst])
    THEN [ok |-> FALSE, fs |-> dir]
    ELSE [ok |-> TRUE,
          fs |-> [n \in (DOMAIN dir \ {src}) \cup {dst} |->
                     IF n = dst THEN dir[src] ELSE dir[n]]]

\* ------------------------------------------------------------------ main
Validate_nobpm ==
    /\ pc = "main"
    /\ IF dir_kind # "dir"
       THEN pc' = "exit" /\ exit_code' = 1
       ELSE pc' = "scan" /\ exit_code' = exit_code
    /\ seen' = {} /\ tracks' = <<>> /\ done' = 0 /\ renamed_count' = 0
    /\ fs0' = fs /\ passed' = {} /\ outcomes' = <<>>
    /\ UNCHANGED <<os_name, dir_kind, fs, bpm, dry_run, run, prev, fp, args, ret>>

\* main, lines 227-251: the validation of the directory and of the BPM.
Validate ==
    /\ pc = "main"
    /\ IF dir_kind # "dir" \/ bpm <= 0
       THEN pc' = "exit" /\ exit_code' = 1
       ELSE pc' = "scan" /\ exit_code' = exit_code
    /\ seen' = {} /\ tracks' = <<>> /\ done' = 0 /\ renamed_count' = 0
    /\ fs0' = fs /\ passed' = {} /\ outcomes' = <<>>
    /\ UNCHANGED <<os_name, dir_kind, fs, bpm, dry_run, run, prev, fp, args, ret>>

\* scan_directory, one round of the loop over directory.iterdir(): the entries
\* come in any order, each once.  float() of a captured run of decimal digits
\* never raises ValueError, so that handler has no step of its own; the
\* ZeroDivisionError of calculate_pitch_adjustment is not caught and leaves the
\* function.
ScanStep ==
    /\ pc = "scan"
    /\ \E name \in DOMAIN fs \ seen :
         LET match == BPM_PATTERN_search(name)
             track_bpm == FloatOfDigits(match[1])
             key == <<track_bpm, bpm>>
         IN  /\ seen' = seen \cup {name}
             /\ IF fs[name] # "file" \/ match = <<>>
                THEN UNCHANGED <<pc, tracks, passed, fp>>
                ELSE /\ passed' = passed \cup {track_bpm}
                     /\ \E r \in calculate_pitch_adjustment(track_bpm, bpm) :
                          /\ key \in DOMAIN fp => r = fp[key]
                          /\ fp' = [k \in DOMAIN fp \cup {key} |->
                                       IF k = key THEN r ELSE fp[k]]
                          /\ IF r = ZeroDivisionError
                             THEN pc' = "raised" /\ tracks' = tracks
                             ELSE /\ pc' = pc
                                  /\ tracks' = Append(tracks,
                                        TrackInfo(name, name, track_bpm, r,
                                                  generate_new_filename(name, r)))
    /\ UNCHANGED <<os_name, dir_kind, fs, bpm, dry_run, done, renamed_count,
                   exit_code, run, fs0, outcomes, prev, args, ret>>

\* scan_directory, line 134: the loop is over, tracks is returned.
ScanReturn ==
    /\ pc = "scan"
    /\ seen = DOMAIN fs
    /\ pc' = "scanned"
    /\ UNCHANGED <<os_name, dir_kind, fs, bpm, dry_run, seen, tracks, done,
                   renamed_count, exit_code, run, fs0, passed, outcomes, prev, fp,
                   args, ret>>

\* main, lines 259-269: no tracks, return 0; otherwise call rename_tracks.
AfterScan ==
    /\ pc = "scanned"
    /\ run = 1
    /\ IF tracks = <<>>
       THEN pc' = "exit" /\ exit_code' = 0
       ELSE pc' = "rename" /\ exit_code' = exit_code
    /\ UNCHANGED <<os_name, dir_kind, fs, bpm, dry_run, seen, tracks, done,
                   renamed_count, run, fs0, passed, outcomes, prev, fp, args, ret>>

RenameStep_nodry ==
    /\ pc = "rename"
    /\ done < Len(tracks)
    /\ LET track == tracks[done + 1]
       IN  \E io_error \in BOOLEAN :
             LET res == os_rename(fs, track.original_path, track.new_name,
                                  os_name, io_error)
             IN  /\ fs' = res.fs
                 /\ renamed_count' = renamed_count + (IF res.ok \/ dry_run THEN 1 ELSE 0)
                 /\ outcomes' = Append(outcomes, res.ok \/ dry_run)
    /\ done' = done + 1
    /\ UNCHANGED <<pc, os_name, dir_kind, bpm, dry_run, seen, tracks, exit_code, run,
                   fs0, passed, prev, fp, args, ret>>

RenameStep_abort ==
    /\ pc = "rename"
    /\ done < Len(tracks)
    /\ LET track == tracks[done + 1]
       IN  IF dry_run
           THEN /\ renamed_count' = renamed_count + 1
                /\ outcomes' = Append(outcomes, TRUE)
                /\ fs' = fs
                /\ done' = done + 1
           ELSE \E io_error \in BOOLEAN :
                  LET res == os_rename(fs, track.original_path, track.new_name,
                                       os_name, io_error)
                  IN  /\ fs' = res.fs
                      /\ renamed_count' = renamed_count + (IF res.ok THEN 1 ELSE 0)
                      /\ outcomes' = Append(outcomes, res.ok)
                      /\ done' = IF res.ok THEN done + 1 ELSE Len(tracks)
    /\ UNCHANGED <<pc, os_name, dir_kind, bpm, dry_run, seen, tracks, exit_code, run,
                   fs0, passed, prev, fp, args, ret>>

\* rename_tracks, one round of the loop over tracks.
RenameStep ==
    /\ pc = "rename"
    /\ done < Len(tracks)
    /\ LET track == tracks[done + 1]
       IN  IF dry_run
           THEN /\ renamed_count' = renamed_count + 1
                /\ outcomes' = Append(outcomes, TRUE)
                /\ fs' = fs
           ELSE \E io_error \in BOOLEAN :
                  LET res == os_rename(fs, track.original_path, track.new_name,
                                       os_name, io_error)
                  IN  /\ fs' = res.fs
                      /\ renamed_count' = renamed_count + (IF res.ok THEN 1 ELSE 0)
                      /\ outcomes' = Append(outcomes, res.ok)
    /\ done' = done + 1
    /\ UNCHANGED <<pc, os_name, dir_kind, bpm, dry_run, seen, tracks, exit_code, run,
                   fs0, passed, prev, fp, args, ret>>

\* rename_tracks, line 167: the loop is over, renamed_count is returned.
RenameReturn ==
    /\ pc = "rename"
    /\ done = Len(tracks)
    /\ pc' = "renamed"
    /\ UNCHANGED <<os_name, dir_kind, fs, bpm, dry_run, seen, tracks, done,
                   renamed_count, exit_code, run, fs0, passed, outcomes, prev, fp,
                   args, ret>>

\* main, lines 271-276.
MainReturn ==
    /\ pc = "renamed"
    /\ pc' = "exit" /\ exit_code' = 0
    /\ UNCHANGED <<os_name, dir_kind, fs, bpm, dry_run, seen, tracks, done,
                   renamed_count, run, fs0, passed, outcomes, prev, fp, args, ret>>

\* scan_directory is called once more after main has returned 0, on the same
\* directory and with the same base BPM (lines 93-104).
Rescan ==
    /\ pc = "exit"
    /\ exit_code = 0
    /\ run = 1
    /\ pc' = "scan" /\ run' = run + 1
    /\ prev' = [tracks |-> tracks, outcomes |-> outcomes]
    /\ seen' = {} /\ tracks' = <<>> /\ passed' = {} /\ fs0' = fs
    /\ UNCHANGED <<os_name, dir_kind, fs, bpm, dry_run, done, renamed_count,
                   exit_code, outcomes, fp, args, ret>>

\* --------------------------------------------------------------- the inputs
Bpm(ds) == <<" ", "-", " ">> \o ds \o <<".">>      \* " - 128."

Ext == <<"m">>

\* The names a directory of Spec starts with.
DirNames ==
    { <<"0", "1", ".", " ", "a">> \o Bpm(<<"1", "2", "5">>) \o Ext,   \* "01. a - 125.m"
      <<"a">> \o Bpm(<<"1", "2", "8">>) \o Ext,                       \* "a - 128.m"
      <<"a">> \o Bpm(<<"1", "3", "0">>) \o Ext,                       \* "a - 130.m"
      <<"a">> \o Bpm(<<"0", "0">>) \o Ext,                            \* "a - 00.m"
      <<"a", ".">> \o Ext,                                            \* "a.m"
      <<"-", " ", "1", "0", ".">> \o Bpm(<<"2", "0">>) \o Ext,        \* "- 10. - 20.m"
      <<"-", " ", "0", "0", ".">> \o Bpm(<<"2", "0">>) \o Ext,        \* "- 00. - 20.m"
      <<"(", "+", "1", ".", "5", "6", ")", " ", "a">>
          \o Bpm(<<"1", "2", "8">>) \o Ext }                          \* "(+1.56) a - 128.m"

\* The names that may be a subdirectory instead of a file.
SubdirNames == { <<"a">> \o Bpm(<<"1", "2", "8">>) \o Ext }

\* Every directory of at most MaxEntries entries.
Directories ==
    UNION { {d \in [S -> {"file", "dir"}] :
                \A n \in S : d[n] = "dir" => n \in SubdirNames} :
              S \in {T \in SUBSET DirNames : Cardinality(T) <= MaxEntries} }

\* The base BPMs of the command line: two that main refuses, two it accepts
\* (132 against 128 is an exact decimal tie, 3.125).
MainBpms == {-BpmDen, 0, 130 * BpmDen, 132 * BpmDen}

Idle ==
    /\ seen = {} /\ tracks = <<>> /\ done = 0 /\ renamed_count = 0
    /\ exit_code = -1 /\ run = 1 /\ passed = {} /\ outcomes = <<>>
    /\ prev = [tracks |-> <<>>, outcomes |-> <<>>]
    /\ fp = [k \in {} |-> <<>>]
    /\ args = <<>> /\ ret = <<>>

\* ------------------------------- Spec: main, and then one more scan_directory
Init ==
    /\ pc = "main"
    /\ os_name \in {"posix", "nt"}
    /\ dir_kind \in {"missing", "file", "dir"}
    /\ fs \in (IF dir_kind = "dir" THEN Directories ELSE {NoFs})
    /\ fs0 = fs
    /\ bpm \in MainBpms
    /\ dry_run \in BOOLEAN
    /\ Idle

Next ==
    \/ Validate
    \/ ScanStep
    \/ ScanReturn
    \/ AfterScan
    \/ RenameStep
    \/ RenameReturn
    \/ MainReturn
    \/ Rescan

Spec == Init /\ [][Next]_vars

\* ------------------------------------------------------- the claims' terms
\* name contains: whitespace, hyphen, whitespace, d decimal digits, period,
\* starting at position i
BpmAt(name, i, d) ==
    /\ i + 3 + d <= Len(name)
    /\ IsSpace(name[i]) /\ name[i + 1] = "-" /\ IsSpace(name[i + 2])
    /\ \A k \in 1..d : IsDigit(name[i + 2 + k])
    /\ name[i + 3 + d] = "."

ContainsBpm(name) ==
    \E i \in 1..Len(name) : \E d \in MinBpmDigits..MaxBpmDigits : BpmAt(name, i, d)

\* the digit run of the first such place in name
FirstBpmRun(name) ==
    LET i == CHOOSE j \in 1..Len(name) :
                 /\ \E d \in MinBpmDigits..MaxBpmDigits : BpmAt(name, j, d)
                 /\ \A k \in 1..(j - 1) :
                      \A d \in MinBpmDigits..MaxBpmDigits : ~BpmAt(name, k, d)
        d == CHOOSE e \in MinBpmDigits..MaxBpmDigits : BpmAt(name, i, e)
    IN  SubSeq(name, i + 3, i + 2 + d)

\* the regular files of a directory whose names carry a BPM
Matching(dir) == {n \in DOMAIN dir : dir[n] = "file" /\ ContainsBpm(n)}

Records == {tracks[k] : k \in 1..Len(tracks)}

\* C3: scan_directory returns, for every directory content, exactly one record
\* for each regular file whose name contains the BPM pattern, with the record's
\* bpm the captured digit run, and no record for anything else.
C3_OneRecordPerMatch ==
    /\ pc # "raised"
    /\ pc = "scanned" =>
         /\ {r.original_name : r \in Records} = Matching(fs)
         /\ Len(tracks) = Cardinality(Matching(fs))
         /\ \A r \in Records : r.bpm = FloatOfDigits(FirstBpmRun(r.original_name))

\* C9: scan_directory only ever passes a track BPM > 0 to
\* calculate_pitch_adjustment, every record has bpm > 0, and a file whose BPM is
\* unusable is skipped: the scan completes with the records of the other files.
C9_OnlyPositiveBpm ==
    /\ \A b \in passed : b > 0
    /\ \A r \in Records : r.bpm > 0
    /\ pc # "raised"
    /\ pc = "scanned" =>
         {r.original_name : r \in Records} =
             {n \in Matching(fs) : FloatOfDigits(FirstBpmRun(n)) > 0}

\* C6: main returns 1 when the directory is missing or not a directory or the
\* base BPM is <= 0, and then no scan and no rename step has run; with a valid
\* configuration and no matching file it returns 0 and has renamed nothing.
C6_ExitCodes ==
    /\ (dir_kind # "dir" \/ bpm <= 0) =>
         /\ pc \in {"main", "exit"}
         /\ pc = "exit" => exit_code = 1
         /\ seen = {} /\ passed = {} /\ outcomes = <<>> /\ fs = fs0
    /\ (dir_kind = "dir" /\ bpm > 0 /\ Matching(fs0) = {} /\ pc = "exit") =>
         exit_code = 0 /\ outcomes = <<>> /\ fs = fs0

\* a refused BPM over a directory that holds a file main would have renamed
C6_Witness ==
    /\ pc = "exit" /\ exit_code = 1
    /\ dir_kind = "dir" /\ bpm <= 0
    /\ Matching(fs) # {}

\* "(" adjustment ") "
Paren(adj) == <<"(">> \o adj \o <<")", " ">>

HyphenFirst(name) == Len(name) > 0 /\ name[1] = "-"

\* the records of main whose file was renamed and is still under its new name
PrevRenamed ==
    {prev.tracks[k] : k \in {j \in 1..Len(prev.tracks) :
                               prev.outcomes[j] /\ prev.tracks[j].new_name \in DOMAIN fs}}

\* C10 as stated: every new name produced by a scan still matches the BPM pattern
\* with the same captured BPM.
C10_SameCapture ==
    \A r \in Records :
        /\ ContainsBpm(r.new_name)
        /\ FloatOfDigits(FirstBpmRun(r.new_name)) = r.bpm

\* C10, amended: every new name produced by a scan still matches the BPM
\* pattern, with the same captured BPM when the original name does not begin
\* with a hyphen; when no record's original name begins with a hyphen, a second
\* scan after a non-dry-run apply, with the same base BPM, does not raise and
\* returns for each renamed file exactly one record, with the same adjustment
\* and a new name that holds the parenthesised adjustment one more time, after
\* any track-number prefix.
C10_Rewrap ==
    /\ \A r \in Records :
         /\ ContainsBpm(r.new_name)
         /\ ~HyphenFirst(r.original_name) =>
              FloatOfDigits(FirstBpmRun(r.new_name)) = r.bpm
    /\ (run > 1 /\ ~dry_run /\ \A r \in PrevRenamed : ~HyphenFirst(r.original_name)) =>
         /\ pc # "raised"
         /\ pc = "scanned" =>
              \A r \in PrevRenamed :
                  LET n == TRACK_NUMBER_PATTERN_match(r.original_name)
                      prefix == SubSeq(r.original_name, 1, n)
                      rest == SubSeq(r.original_name, n + 1, Len(r.original_name))
                      again == {k \in 1..Len(tracks) :
                                  tracks[k].original_name = r.new_name}
                  IN  /\ r.new_name = prefix \o Paren(r.pitch_adjustment) \o rest
                      /\ Cardinality(again) = 1
                      /\ \A k \in again :
                           /\ tracks[k].pitch_adjustment = r.pitch_adjustment
                           /\ tracks[k].new_name =
                                prefix \o Paren(r.pitch_adjustment)
                                       \o Paren(r.pitch_adjustment) \o rest

\* the second scan has returned over a renamed file with a track-number prefix
\* and a renamed file without one
C10_Witness ==
    /\ run > 1 /\ ~dry_run /\ pc = "scanned"
    /\ \E r \in PrevRenamed : TRACK_NUMBER_PATTERN_match(r.original_name) > 0
    /\ \E r \in PrevRenamed :
         TRACK_NUMBER_PATTERN_match(r.original_name) = 0 /\ ~HyphenFirst(r.original_name)

\* ------------------------------ SpecPitch: one call of calculate_pitch_adjustment
\* whole base BPMs, and after each the next value above it, the half and the
\* last value below the next whole one
PitchBases ==
    {k * BpmDen + f : k \in 1..MaxBaseBpm, f \in {0, 1, BpmDen \div 2, BpmDen - 1}}

InitPitch ==
    /\ pc = "calculate_pitch_adjustment"
    /\ os_name = "posix" /\ dir_kind = "dir" /\ fs = NoFs /\ fs0 = NoFs
    /\ bpm = 0 /\ dry_run = FALSE
    /\ seen = {} /\ tracks = <<>> /\ done = 0 /\ renamed_count = 0
    /\ exit_code = -1 /\ run = 1 /\ passed = {} /\ outcomes = <<>>
    /\ prev = [tracks |-> <<>>, outcomes |-> <<>>]
    /\ fp = [k \in {} |-> <<>>]
    /\ args \in {<<t * BpmDen, b>> : t \in 1..MaxTrackBpm, b \in PitchBases}
    /\ ret = <<>>

CallPitch ==
    /\ pc = "calculate_pitch_adjustment"
    /\ ret' \in calculate_pitch_adjustment(args[1], args[2])
    /\ pc' = "return"
    /\ UNCHANGED <<os_name, dir_kind, fs, bpm, dry_run, seen, tracks, done,
                   renamed_count, exit_code, run, fs0, passed, outcomes, prev, fp, args>>

SpecPitch == InitPitch /\ [][CallPitch]_vars

\* ---------------------------------- SpecName: one call of generate_new_filename
NameAlphabet == {"1", ".", " ", "\t", "a"}

Names == UNION {[1..n -> NameAlphabet] : n \in 0..MaxNameLen}

Adjustments == {<<"0">>, <<"+", "1", ".", "5", "6">>, <<"-", "2", ".", "5">>}

InitName ==
    /\ pc = "generate_new_filename"
    /\ os_name = "posix" /\ dir_kind = "dir" /\ fs = NoFs /\ fs0 = NoFs
    /\ bpm = 0 /\ dry_run = FALSE
    /\ seen = {} /\ tracks = <<>> /\ done = 0 /\ renamed_count = 0
    /\ exit_code = -1 /\ run = 1 /\ passed = {} /\ outcomes = <<>>
    /\ prev = [tracks |-> <<>>, outcomes |-> <<>>]
    /\ fp = [k \in {} |-> <<>>]
    /\ args \in {<<n, a>> : n \in Names, a \in Adjustments}
    /\ ret = <<>>

CallName ==
    /\ pc = "generate_new_filename"
    /\ ret' = generate_new_filename(args[1], args[2])
    /\ pc' = "return"
    /\ UNCHANGED <<os_name, dir_kind, fs, bpm, dry_run, seen, tracks, done,
                   renamed_count, exit_code, run, fs0, passed, outcomes, prev, fp, args>>

SpecName == InitName /\ [][CallName]_vars

\* ------------------- SpecScan: scan_directory over a directory of one file
DigitRuns ==
    UNION {[1..n -> Range(DigitChars)] : n \in MinBpmDigits..MaxBpmDigits}

\* base BPMs of the call: 0.5, 100, the value next above 200, 130, 175.5
ScanBases ==
    {BpmDen \div 2, 100 * BpmDen, 200 * BpmDen + 1, 130 * BpmDen,
     175 * BpmDen + BpmDen \div 2}

InitScan ==
    /\ pc = "scan"
    /\ os_name = "posix" /\ dir_kind = "dir"
    /\ fs \in {[n \in {<<"a">> \o Bpm(ds) \o Ext} |-> "file"] : ds \in DigitRuns}
    /\ fs0 = fs
    /\ bpm \in ScanBases
    /\ dry_run = FALSE
    /\ Idle

NextScan ==
    \/ ScanStep
    \/ ScanReturn

SpecScan == InitScan /\ [][NextScan]_vars

\* ------------------------ SpecRename: rename_tracks over any list of records
RNames == {<<"a">>, <<"b">>, <<"c">>}

\* records as the tests build them by hand: any original, any other new name
RRecords ==
    {TrackInfo(p[1], p[1], 0, <<>>, p[2]) : p \in {q \in RNames \X RNames : q[1] # q[2]}}

InitRename ==
    /\ pc = "rename"
    /\ os_name \in {"posix", "nt"}
    /\ dir_kind = "dir"
    /\ fs \in UNION {[S -> {"file", "dir"}] : S \in SUBSET RNames}
    /\ fs0 = fs
    /\ bpm = 0
    /\ dry_run \in BOOLEAN
    /\ tracks \in UNION {[1..n -> RRecords] : n \in 0..MaxRecords}
    /\ seen = {} /\ done = 0 /\ renamed_count = 0
    /\ exit_code = -1 /\ run = 1 /\ passed = {} /\ outcomes = <<>>
    /\ prev = [tracks |-> <<>>, outcomes |-> <<>>]
    /\ fp = [k \in {} |-> <<>>]
    /\ args = <<>> /\ ret = <<>>

NextRename ==
    \/ RenameStep
    \/ RenameReturn

SpecRename == InitRename /\ [][NextRename]_vars

\* ------------------------------------------------ decimal text, read back
RECURSIVE DecVal(_)
DecVal(ds) ==
    IF ds = <<>> THEN 0
    ELSE DecVal(SubSeq(ds, 1, Len(ds) - 1)) * 10 + DigitVal(ds[Len(ds)])

AllDigits(ds) == \A k \in 1..Len(ds) : IsDigit(ds[k])

\* s is digits, a period, and a number of fraction digits that is in fracs
IsDecimal(s, fracs) ==
    \E i \in 2..Len(s) :
        /\ s[i] = "."
        /\ AllDigits(SubSeq(s, 1, i - 1))
        /\ AllDigits(SubSeq(s, i + 1, Len(s)))
        /\ (Len(s) - i) \in fracs

\* the value of such a text, in hundredths
Hundredths(s) ==
    LET i == CHOOSE j \in 1..Len(s) : s[j] = "."
        frac == SubSeq(s, i + 1, Len(s))
    IN  DecVal(SubSeq(s, 1, i - 1)) * 100
        + (IF Len(frac) = 1 THEN DecVal(frac) * 10 ELSE DecVal(frac))

\* the text is how a float prints: no zero before a digit of the whole part and
\* no zero after a second fraction digit
PrintsAsFloat(s) ==
    /\ IsDecimal(s, {1, 2})
    /\ s[1] = "0" => s[2] = "."
    /\ s[Len(s) - 2] = "." => s[Len(s)] # "0"

\* C1: calculate_pitch_adjustment(track_bpm, base_bpm) is "0" when the two are
\* equal; otherwise it is the percentage ((base - track) / track) * 100 rounded
\* to 2 decimal places, after "+" when the percentage is > 0 and with its own
\* "-" when it is < 0.
C1_Reference ==
    pc = "return" =>
        LET track_bpm == args[1]
            base_bpm == args[2]
            value == Tail(ret)
        IN  IF track_bpm = base_bpm THEN ret = <<"0">>
            ELSE /\ ret[1] = (IF base_bpm > track_bpm THEN "+" ELSE "-")
                 /\ PrintsAsFloat(value)
                 /\ 2 * Abs(Hundredths(value) * track_bpm
                            - 10000 * Abs(base_bpm - track_bpm)) <= track_bpm

\* a track a shade faster than the base: the percentage rounds to zero and still
\* carries its sign
C1_Witness ==
    /\ pc = "return"
    /\ args[2] < args[1]
    /\ ret = <<"-", "0", ".", "0">>

\* the value of a returned adjustment, in hundredths, signed
Signed(adj) ==
    IF adj = <<"0">> THEN 0
    ELSE IF adj[1] = "-" THEN -Hundredths(Tail(adj)) ELSE Hundredths(Tail(adj))

\* adj is a signed decimal within 1% of v hundredths
Approx(adj, v) ==
    /\ adj[1] = (IF v > 0 THEN "+" ELSE "-")
    /\ IsDecimal(Tail(adj), {1, 2})
    /\ 100 * Abs(Signed(adj) - v) <= Abs(v)

\* C7 as stated: with the arguments in the order (track_bpm, base_bpm), the
\* call returns "+4.0" for (130, 125), about "-7.14" for (130, 140), about
\* "+1.56" for (130, 128) and "+30.0" for (130, 100).
C7_SpecOrder ==
    pc = "return" =>
        /\ args = <<130 * BpmDen, 125 * BpmDen>> => ret = <<"+", "4", ".", "0">>
        /\ args = <<130 * BpmDen, 140 * BpmDen>> => Approx(ret, -714)
        /\ args = <<130 * BpmDen, 128 * BpmDen>> => Approx(ret, 156)
        /\ args = <<130 * BpmDen, 100 * BpmDen>> => ret = <<"+", "3", "0", ".", "0">>

\* C7, amended: the examples hold with the track BPM first and 130 as the base
\* BPM: "+4.0" for (125, 130), "-7.14" for (140, 130), "+1.56" for (128, 130),
\* "+30.0" for (100, 130).
C7_CodeOrder ==
    pc = "return" =>
        /\ args = <<125 * BpmDen, 130 * BpmDen>> => ret = <<"+", "4", ".", "0">>
        /\ args = <<140 * BpmDen, 130 * BpmDen>> => ret = <<"-", "7", ".", "1", "4">>
        /\ args = <<128 * BpmDen, 130 * BpmDen>> => ret = <<"+", "1", ".", "5", "6">>
        /\ args = <<100 * BpmDen, 130 * BpmDen>> => ret = <<"+", "3", "0", ".", "0">>

C7_Witness ==
    /\ pc = "return"
    /\ args = <<140 * BpmDen, 130 * BpmDen>>

\* C8 as stated: every record's adjustment is "0" or a decimal with a leading
\* "+" or "-" and exactly 2 fraction digits.
C8_TwoFractionDigits ==
    \A r \in Records :
        \/ r.pitch_adjustment = <<"0">>
        \/ /\ r.pitch_adjustment[1] \in {"+", "-"}
           /\ IsDecimal(Tail(r.pitch_adjustment), {2})

\* C8, amended: every record's adjustment is "0" or a decimal with a leading
\* "+" or "-" and one or two fraction digits.
C8_SignedDecimal ==
    \A r \in Records :
        \/ r.pitch_adjustment = <<"0">>
        \/ /\ r.pitch_adjustment[1] \in {"+", "-"}
           /\ IsDecimal(Tail(r.pitch_adjustment), {1, 2})

\* the scan has returned a record whose adjustment has one fraction digit
C8_Witness ==
    /\ pc = "scanned"
    /\ \E r \in Records :
         /\ r.pitch_adjustment # <<"0">>
         /\ IsDecimal(Tail(r.pitch_adjustment), {1})

\* the lengths n such that the first n characters of name are a track-number
\* prefix: one or more digits, optionally a period, then one separator
PrefixLens(name, sep(_)) ==
    {n \in 2..Len(name) :
        \E d \in 1..(n - 1) :
            /\ \A k \in 1..d : IsDigit(name[k])
            /\ sep(name[n])
            /\ n = d + 1 \/ (n = d + 2 /\ name[d + 1] = ".")}

IsBlank(c) == c = " "

\* the new name the claim gives for a name, an adjustment and a kind of separator
Composed(name, adj, sep(_)) ==
    IF PrefixLens(name, sep) = {}
    THEN {<<"(">> \o adj \o <<")", " ">> \o name}
    ELSE {SubSeq(name, 1, n) \o <<"(">> \o adj \o <<")", " ">>
              \o SubSeq(name, n + 1, Len(name)) : n \in PrefixLens(name, sep)}

\* C2 as stated: the new name is prefix + "(" + adjustment + ") " + remainder,
\* the prefix being one or more digits, optionally a period, then exactly one
\* space character; without such a prefix it is "(" + adjustment + ") " + name.
C2_SpacePrefix ==
    pc = "return" => {ret} = Composed(args[1], args[2], IsBlank)

\* C2, amended: the same, the prefix ending in exactly one whitespace character
\* (a space or any other character \s matches, such as a tab).
C2_WhitespacePrefix ==
    pc = "return" => {ret} = Composed(args[1], args[2], IsSpace)

\* the call has returned for a name whose track number ends in a tab
C2_Witness ==
    /\ pc = "return"
    /\ PrefixLens(args[1], IsSpace) # {}
    /\ PrefixLens(args[1], IsBlank) = {}
    /\ Len(ret) = Len(args[1]) + Len(args[2]) + 3

Successes == {k \in 1..Len(outcomes) : outcomes[k]}

\* C4: rename_tracks(records, dry_run=True) leaves the directory as it was, for
\* every list of records (original names still there, no new name), and returns
\* the number of records.
C4_DryRunFrame ==
    (dry_run /\ pc \in {"rename", "renamed"}) =>
        /\ fs = fs0
        /\ pc = "renamed" => renamed_count = Len(tracks)

\* the preview of two records has returned; the originals were there and would
\* have been renamed
C4_Witness ==
    /\ dry_run /\ pc = "renamed"
    /\ Len(tracks) = 2 /\ renamed_count = 2
    /\ \A r \in Records : r.original_path \in DOMAIN fs /\ r.new_name \notin DOMAIN fs

\* C5 as stated: rename_tracks(records, dry_run=False) goes through every
\* record whatever failed before, returns the number of renames that succeeded,
\* and with no failure every original name is gone, every new name exists and
\* the count is the number of records.
C5_NoFailureAllRenamed ==
    (~dry_run /\ pc = "renamed") =>
        /\ Len(outcomes) = Len(tracks)
        /\ renamed_count = Cardinality(Successes)
        /\ Cardinality(Successes) = Len(tracks) =>
             /\ renamed_count = Len(tracks)
             /\ \A r \in Records :
                  r.original_path \notin DOMAIN fs /\ r.new_name \in DOMAIN fs

\* C5, amended: the same, the names being gone and there holding when no
\* record's new name is the original name of a record of the list.
C5_NoFailureNoChain ==
    (~dry_run /\ pc = "renamed") =>
        /\ Len(outcomes) = Len(tracks)
        /\ renamed_count = Cardinality(Successes)
        /\ Cardinality(Successes) = Len(tracks) =>
             /\ renamed_count = Len(tracks)
             /\ (\A r, q \in Records : r.new_name # q.original_path) =>
                  \A r \in Records :
                      r.original_path \notin DOMAIN fs /\ r.new_name \in DOMAIN fs

\* the first rename failed and the second one was made all the same
C5_Witness ==
    /\ ~dry_run /\ pc = "renamed"
    /\ outcomes = <<FALSE, TRUE>>
    /\ renamed_count = 1
    /\ tracks[2].new_name \in DOMAIN fs /\ tracks[2].new_name \notin DOMAIN fs0

\* the regular files of a directory
Files(dir) == {n \in DOMAIN dir : dir[n] = "file"}

\* C11: scan_directory followed by a non-dry-run rename_tracks over its result
\* never loses a file: in every iteration order of the directory no rename
\* replaces an existing file, so at every point of the apply and after it the
\* directory holds as many files (and as many entries) as before the scan, also
\* when a record's new name is the name of another file of the directory.
C11_NoFileLost ==
    (~dry_run /\ pc \in {"rename", "renamed", "exit"}) =>
        /\ Cardinality(Files(fs)) = Cardinality(Files(fs0))
        /\ Cardinality(DOMAIN fs) = Cardinality(DOMAIN fs0)

====
